---- MODULE Spec2Model ----
(***************************************************************************)
(* Payroll draft/final workflow of hr_system: the salary and salary_detail *)
(* tables behind one shared sqlite3 connection, and the operations that    *)
(* write them (save_salary_df, save_salary_draft, generate_monthly_        *)
(* salaries, save_data_editor_changes, batch_update_salary_details_from_   *)
(* excel, finalize_salary_records, revert_salary_to_draft,                 *)
(* delete_salary_records) and read them (get_salary_report_for_editing).   *)
(*                                                                         *)
(* Item names of the catalogue (rows of salary_item) are written in ASCII: *)
(*   "base" = 底薪, "allowance" = a recurring earning item (津貼),          *)
(*   "insurance" = 勞健保.                                                  *)
(***************************************************************************)
EXTENDS Integers, Sequences, FiniteSets, TLC

\* ------------------------------------------------------------------------
\* Bounds of the model
\* ------------------------------------------------------------------------

\* number of calls made on the connection in one run
MaxOps == 3

\* ------------------------------------------------------------------------
\* Stored master data (rows of employee, salary_item, salary_base_history)
\* ------------------------------------------------------------------------

Employees == {1, 2}

Months == {1, 2}

\* employee.name_ch
name_ch == [e \in Employees |-> IF e = 1 THEN "A" ELSE "B"]

\* rows of salary_item (type by name) of the workflow runs
BasicCatalogue == [base |-> "earning", allowance |-> "earning", insurance |-> "deduction"]

\* SQL NULL / pandas NaN; a present value v is <<v>>
NULL == <<>>

\* salary_base_history.base_salary of every employee (dependents = 0)
BaseSalary == 30000

\* a date 'YYYY-MM-DD' of the payroll year, ordered as the strings are; month
\* 0 is December of the year before
Date(m, d) == m * 100 + d

\* pd.Timestamp(year, month, 1).days_in_month
days_in_month(m) == IF m = 2 THEN 28 ELSE 31

\* month_first_day = f"{year}-{month:02d}-01"
month_first_day(m) == Date(m, 1)

\* month_last_day = f"{year}-{month:02d}-{last_day}"
month_last_day(m) == Date(m, days_in_month(m))

\* a row of employee: entry_date, resign_date, arrival_date nullable;
\* nationality TEXT DEFAULT 'TW'. arrival_date is counted in days from
\* January 1 of the payroll year (negative: the year before)
EmployeeRow(entry, resign, nationality, arrival) ==
    [entry_date |-> entry, resign_date |-> resign, nationality |-> nationality,
     arrival_date |-> arrival]

\* a row of employee_salary_item: start_date NOT NULL, end_date nullable
RecurringRow(e, i, a, start, end) ==
    [employee_id |-> e, item |-> i, amount |-> a, start_date |-> start, end_date |-> end]

\* the rows of employee_salary_item of the workflow runs: standing assignments
\* made the year before, without end date
RecurringRows == {RecurringRow(1, "allowance", 500, Date(0, 1), NULL),
                  RecurringRow(2, "allowance", -500, Date(0, 1), NULL)}

\* a row of insurance_grade (start_date NOT NULL)
GradeRow(type, start, lo, hi, fee) ==
    [type |-> type, start_date |-> start, salary_min |-> lo, salary_max |-> hi,
     employee_fee |-> fee]

\* the schedules of the workflow runs: one band per type, in force since the
\* year before
GradeRows == {GradeRow("labor", Date(0, 1), 0, 45800, 1000),
              GradeRow("health", Date(0, 1), 0, 45800, 500)}

\* employee_fee values an insurance_grade row is edited between
HealthFees == {500, 600}

\* amounts an operator types into a cell of the data editor
EditAmounts == {0, 700}

\* the month whose table the operator edits and imports into
EditMonths == {1}

\* default_items of the generate form (number_input, min_value 0.0)
DefaultItems == [base |-> 30000, allowance |-> 500, insurance |-> 0]

\* amounts found in a cell of an uploaded spreadsheet
FileAmounts == {300, -300}

VARIABLES
    schema,                \* which CREATE TABLE salary the database was built with
    db,                    \* what the connection sees: salary, salary_detail, sqlite_sequence
    committed,             \* what is durably committed
    inTxn,                 \* sqlite3 connection has a transaction open
    employee_salary_item,  \* recurring item assignments
    employee,              \* rows of employee by id: entry_date, resign_date,
                           \* nationality, arrival_date
    insurance_grade,       \* rows of insurance_grade
    item_types,            \* rows of salary_item: type by name (get_item_types)
    salary_base_history,   \* base_salary of the newest row, by employee id
    attendance,            \* rows of attendance, minutes by employee and month
    last,                  \* the last call, its arguments, result and pre-state
    ops                    \* number of calls made so far

vars == <<schema, db, committed, inTxn, employee_salary_item, employee, insurance_grade,
          item_types, salary_base_history, attendance, last, ops>>

\* tables no modelled call writes
masters == <<item_types, salary_base_history, attendance>>

inputs == <<employee_salary_item, employee, insurance_grade, masters>>

\* item_map / item_types keys: the names of the catalogue
Items == DOMAIN item_types

\* ------------------------------------------------------------------------
\* Generic helpers
\* ------------------------------------------------------------------------

Min(S) == CHOOSE x \in S : \A y \in S : x <= y

Max(S) == CHOOSE x \in S : \A y \in S : x >= y

Abs(x) == IF x < 0 THEN -x ELSE x

RECURSIVE SumOver(_, _)
SumOver(S, f) ==
    IF S = {} THEN 0
    ELSE LET x == CHOOSE y \in S : TRUE IN f[x] + SumOver(S \ {x}, f)

\* the elements of a set of integers in ascending order (ORDER BY id ASC)
RECURSIVE SortedSeq(_)
SortedSeq(S) ==
    IF S = {} THEN <<>>
    ELSE <<Min(S)>> \o SortedSeq(S \ {Min(S)})

\* int(x / d) of Python: truncation toward zero
TruncDiv(x, d) == IF x >= 0 THEN x \div d ELSE -((-x) \div d)

\* ------------------------------------------------------------------------
\* Tables
\* ------------------------------------------------------------------------

\* a row of salary as INSERT INTO salary (employee_id, year, month) leaves it
NewSalary(id, e, m) ==
    [id |-> id, employee_id |-> e, month |-> m, status |-> "draft",
     bank_transfer_override |-> NULL,
     total_payable |-> NULL, total_deduction |-> NULL, net_salary |-> NULL,
     bank_transfer_amount |-> NULL, cash_amount |-> NULL]

EmptyDb == [salary |-> {}, salary_detail |-> {}, seq |-> 0]

\* rows of salary for (employee, month)
SalaryOf(d, e, m) == {r \in d.salary : r.employee_id = e /\ r.month = m}

SalaryOfMonth(d, m) == {r \in d.salary : r.month = m}

\* rows of salary_detail under one salary row / under (salary row, item)
DetailsOf(d, sid) == {x \in d.salary_detail : x.salary_id = sid}

DetailsOfItem(d, sid, i) == {x \in d.salary_detail : x.salary_id = sid /\ x.item = i}

DetailsOfMonth(d, m) ==
    {x \in d.salary_detail : \E r \in SalaryOfMonth(d, m) : r.id = x.salary_id}

\* variant: the newest row of the pair (ORDER BY id DESC) instead of the first
SelectSalaryId_Newest(d, e, m) == Max({r.id : r \in SalaryOf(d, e, m)})

\* SELECT id FROM salary WHERE employee_id = ? AND year = ? AND month = ?
\* .fetchone(): salary has no index, the scan is in rowid order
SelectSalaryId(d, e, m) == Min({r.id : r \in SalaryOf(d, e, m)})

\* emp_map = read_sql(SELECT id, name_ch FROM employee).to_dict(); .get(name)
emp_map(name) ==
    IF \E e \in Employees : name_ch[e] = name
    THEN CHOOSE e \in Employees : name_ch[e] = name
    ELSE 0

\* INSERT INTO salary_detail (salary_id, salary_item_id, amount); n numbers
\* the rows of one (salary_id, item) in insertion order
InsertDetail(d, sid, i, a) ==
    [d EXCEPT !.salary_detail = @ \cup
        {[salary_id |-> sid, item |-> i, amount |-> a,
          n |-> Cardinality(DetailsOfItem(d, sid, i)) + 1]}]

\* variant: the save without its DELETE statement
DeleteDetails_Skipped(d, sid) == d

\* DELETE FROM salary_detail WHERE salary_id = ?
DeleteDetails(d, sid) ==
    [d EXCEPT !.salary_detail = {x \in @ : x.salary_id # sid}]

\* DELETE FROM salary_detail WHERE salary_id = ? AND salary_item_id = ?
DeleteDetailsOfItem(d, sid, i) ==
    [d EXCEPT !.salary_detail = {x \in @ : ~(x.salary_id = sid /\ x.item = i)}]

\* executemany(INSERT INTO salary_detail ...) of the non-zero catalogue items
RECURSIVE InsertRowDetails(_, _, _, _)
InsertRowDetails(d, sid, row, todo) ==
    IF todo = {} THEN d
    ELSE LET i == CHOOSE j \in todo : TRUE
             d1 == IF row[i] # 0 THEN InsertDetail(d, sid, i, row[i]) ELSE d
         IN InsertRowDetails(d1, sid, row, todo \ {i})

\* ------------------------------------------------------------------------
\* Salary line calculator (the catalogue items of calculate_salary_df)
\* ------------------------------------------------------------------------

\* SELECT employee_fee ... WHERE type = ? AND ? BETWEEN salary_min AND
\* salary_max ORDER BY start_date DESC LIMIT 1, or (0, 0)
InsuranceLookup(type, amount) ==
    LET hits == {g \in insurance_grade :
                    g.type = type /\ g.salary_min <= amount /\ amount <= g.salary_max}
    IN IF hits = {} THEN 0
       ELSE (CHOOSE g \in hits : \A h \in hits : h.start_date <= g.start_date).employee_fee

\* variant: an employee who enters on the last day of the month is left out
ActiveIds_EntryBeforeLastDay(m) ==
    {e \in Employees :
        /\ employee[e].entry_date # NULL
        /\ employee[e].entry_date[1] < month_last_day(m)
        /\ \/ employee[e].resign_date = NULL
           \/ employee[e].resign_date[1] >= month_first_day(m)}

\* WHERE (e.entry_date IS NOT NULL AND e.entry_date <= ?) AND (e.resign_date
\* IS NULL OR e.resign_date >= ?), params month_last_day, month_first_day
ActiveIds(m) ==
    {e \in Employees :
        /\ employee[e].entry_date # NULL
        /\ employee[e].entry_date[1] <= month_last_day(m)
        /\ \/ employee[e].resign_date = NULL
           \/ employee[e].resign_date[1] >= month_first_day(m)}

\* get_active_employees_for_month: ORDER BY e.id ASC
get_active_employees_for_month(m) == SortedSeq(ActiveIds(m))

\* the recurring items loop: details[name] = details.get(name, 0) + signed amount
RecurringAmount(e, i) ==
    LET rows == {r \in employee_salary_item : r.employee_id = e /\ r.item = i}
        signed == [r \in rows |-> IF item_types[i] = "deduction"
                                  THEN -Abs(r.amount) ELSE Abs(r.amount)]
    IN SumOver(rows, signed)

\* int(np.round(n / d)) for n >= 0: to the nearest integer, halves to even
RoundHalfEven(n, d) ==
    LET q == n \div d
        r == n % d
    IN IF 2 * r > d \/ (2 * r = d /\ q % 2 = 1) THEN q + 1 ELSE q

\* int(np.round(a * b / d)) for a, b >= 0, with products kept below 2^31
RoundHalfEvenMul(a, b, d) ==
    LET whole == (a \div d) * b
        rest == (a % d) * b
        q == whole + rest \div d
        r == rest % d
    IN IF 2 * r > d \/ (2 * r = d /\ q % 2 = 1) THEN q + 1 ELSE q

\* int(np.ceil(n / d)) for n >= 0
CeilDiv(n, d) == (n + d - 1) \div d

\* the constants of config; a rate is <<numerator, denominator>>
HOURLY_RATE_DIVISOR == 240

NHI_SUPPLEMENT_THRESHOLD == 28590

NHI_SUPPLEMENT_RATE == <<211, 10000>>

WITHHOLDING_TAX_THRESHOLD == 88501

WITHHOLDING_TAX_RATE == <<5, 100>>

FOREIGNER_TAX_RATE_THRESHOLD_MULTIPLIER == <<15, 10>>

FOREIGNER_HIGH_INCOME_TAX_RATE == <<18, 100>>

FOREIGNER_LOW_INCOME_TAX_RATE == <<6, 100>>

\* (datetime(year, month, 1) - ...): the first day of month m in days from
\* January 1 of the payroll year
RECURSIVE month_start(_)
month_start(m) == IF m <= 1 THEN 0 ELSE month_start(m - 1) + days_in_month(m - 1)

\* monthly_attendance_summary.loc[emp_id].get(col, 0): the minutes of the
\* rows of attendance of the employee in the month, summed
AttendanceMinutes(e, m, col) ==
    LET rows == {a \in attendance : a.employee_id = e /\ a.month = m}
    IN SumOver(rows, [a \in rows |-> a[col]])

\* base_salary of sql_base
base_salary(e) == salary_base_history[e]

\* variant: the 1.67 multiplier for every tier
OvertimePay_OneMultiplier(e, minutes, factor) ==
    RoundHalfEvenMul(RoundHalfEven(minutes * 100, 60) * base_salary(e), 167,
                     100 * HOURLY_RATE_DIVISOR * 100)

\* details['加班費'] = int(np.round(round(minutes / 60, 2) * hourly_rate * factor)),
\* factor in hundredths (134, 167). np.round sees the binary product: an
\* exact half can land on either side; the attendance and base salaries
\* modelled produce no half
OvertimePay(e, minutes, factor) ==
    RoundHalfEvenMul(RoundHalfEven(minutes * 100, 60) * base_salary(e), factor,
                     100 * HOURLY_RATE_DIVISOR * 100)

\* deduction_late_early = int(np.round((late + early) / 60 * hourly_rate))
deduction_late_early(e, m) ==
    RoundHalfEven((AttendanceMinutes(e, m, "late_minutes")
                   + AttendanceMinutes(e, m, "early_leave_minutes")) * base_salary(e),
                  60 * HOURLY_RATE_DIVISOR)

\* the keys the calculator writes besides the recurring items, by the names
\* used here for 底薪, 加班費, 加班費2, 遲到, 早退, 勞健保, 二代健保補充費, 稅款
CalcKeys == {"base", "overtime", "overtime2", "late", "early_leave", "insurance",
             "nhi_supplement", "tax"}

\* details before the recurring items loop: a key that is not set is NULL
AttendanceDetails(e, m) ==
    [k \in CalcKeys \cup Items |->
        CASE k = "base" -> <<base_salary(e)>>
          [] k = "overtime" ->
                <<OvertimePay(e, AttendanceMinutes(e, m, "overtime1_minutes"), 134)>>
          [] k = "overtime2" ->
                <<OvertimePay(e, AttendanceMinutes(e, m, "overtime2_minutes"), 167)>>
          [] k = "late" ->
                IF deduction_late_early(e, m) > 0
                THEN <<-deduction_late_early(e, m)>> ELSE NULL
          [] k = "early_leave" ->
                IF deduction_late_early(e, m) > 0 THEN <<0>> ELSE NULL
          [] OTHER -> NULL]

\* details after the recurring items loop
RecurringDetails(e, details) ==
    [k \in DOMAIN details |->
        IF k \in Items /\ \E r \in employee_salary_item : r.employee_id = e /\ r.item = k
        THEN <<(IF details[k] = NULL THEN 0 ELSE details[k][1]) + RecurringAmount(e, k)>>
        ELSE details[k]]

\* total_earnings = sum(v for k, v in details.items() if item_types.get(k) == 'earning')
total_earnings(details) ==
    LET keys == {k \in Items : item_types[k] = "earning" /\ details[k] # NULL}
    IN SumOver(keys, [k \in keys |-> details[k][1]])

\* is_foreigner = emp_nationality and emp_nationality.upper() != 'TW'
is_foreigner(e) ==
    /\ employee[e].nationality # NULL
    /\ employee[e].nationality[1] # ""
    /\ employee[e].nationality[1] # "TW"

\* variant: the 183rd day does not count yet
is_resident_After183(e, m) ==
    /\ employee[e].arrival_date # NULL
    /\ month_start(m) - employee[e].arrival_date[1] > 183

\* is_resident = (datetime(year, month, 1) - emp_arrival_date).days >= 183
\* if emp_arrival_date else False
is_resident(e, m) ==
    /\ employee[e].arrival_date # NULL
    /\ month_start(m) - employee[e].arrival_date[1] >= 183

\* the rate of tax_amount = total_earnings * rate, NULL when tax_amount stays 0
TaxRate(e, m, E) ==
    LET t == FOREIGNER_TAX_RATE_THRESHOLD_MULTIPLIER
    IN IF is_foreigner(e) /\ ~is_resident(e, m)
       THEN IF E * t[2] > NHI_SUPPLEMENT_THRESHOLD * t[1]
            THEN FOREIGNER_HIGH_INCOME_TAX_RATE
            ELSE FOREIGNER_LOW_INCOME_TAX_RATE
       ELSE IF E >= WITHHOLDING_TAX_THRESHOLD THEN WITHHOLDING_TAX_RATE ELSE NULL

\* variant: the supplement rounded to the nearest integer
nhi_supplement_Rounded(E) ==
    IF E >= NHI_SUPPLEMENT_THRESHOLD
    THEN <<-RoundHalfEven(E * NHI_SUPPLEMENT_RATE[1], NHI_SUPPLEMENT_RATE[2])>>
    ELSE NULL

\* if total_earnings >= config.NHI_SUPPLEMENT_THRESHOLD:
\*     details['二代健保補充費'] = -int(np.ceil(total_earnings * config.NHI_SUPPLEMENT_RATE))
nhi_supplement(E) ==
    IF E >= NHI_SUPPLEMENT_THRESHOLD
    THEN <<-CeilDiv(E * NHI_SUPPLEMENT_RATE[1], NHI_SUPPLEMENT_RATE[2])>>
    ELSE NULL

\* the insurance, supplement and tax keys, written over the details of the
\* recurring items loop
InsuranceAndTax(e, m, non_insured_names, details) ==
    LET E == total_earnings(details)
        is_non_insured == name_ch[e] \in non_insured_names
        rate == TaxRate(e, m, E)
    IN [k \in DOMAIN details |->
          CASE k = "insurance" ->
                  IF is_non_insured THEN <<0>>
                  ELSE <<-(InsuranceLookup("labor", base_salary(e))
                           + InsuranceLookup("health", base_salary(e)) * (1 + 0))>>
            [] k = "nhi_supplement" ->
                  IF is_non_insured /\ nhi_supplement(E) # NULL
                  THEN nhi_supplement(E)
                  ELSE details[k]
            [] k = "tax" ->
                  IF rate # NULL /\ E * rate[1] > 0
                  THEN <<-RoundHalfEven(E * rate[1], rate[2])>>
                  ELSE details[k]
            [] OTHER -> details[k]]

\* the details of one employee as they are appended to all_salary_data
Details(e, m, non_insured_names) ==
    InsuranceAndTax(e, m, non_insured_names,
                    RecurringDetails(e, AttendanceDetails(e, m)))

\* pd.DataFrame(all_salary_data).fillna(0), the catalogue columns of one line;
\* keys outside the catalogue are dropped by the save
fillna(details) ==
    [i \in Items |-> IF details[i] = NULL THEN 0 ELSE details[i][1]]

\* one employee's line of the DataFrame
CalcRow(e, m, non_insured_names) ==
    [name |-> name_ch[e], items |-> fillna(Details(e, m, non_insured_names))]

calculate_salary_df(m, non_insured_names) ==
    LET emps == get_active_employees_for_month(m)
    IN [k \in 1..Len(emps) |-> CalcRow(emps[k], m, non_insured_names)]


\* ------------------------------------------------------------------------
\* The connection: calls, commit, rollback
\* ------------------------------------------------------------------------

\* the call as recorded in `last`
Call(op, m, ok, ret, df, ids) ==
    [op |-> op, month |-> m, ok |-> ok, ret |-> ret, df |-> df, ids |-> ids,
     pre |-> db, preCommitted |-> committed]

\* the writes d, then conn.commit()
Commits(d) ==
    /\ db' = d
    /\ committed' = d
    /\ inTxn' = FALSE

\* an exception leaves the function with the writes d made and neither
\* commit nor rollback: sqlite3 opened the transaction before the first write
LeavesOpen(d) ==
    /\ db' = d
    /\ committed' = committed
    /\ inTxn' = (inTxn \/ d # db)

\* conn.rollback()
RollsBack ==
    /\ db' = committed
    /\ committed' = committed
    /\ inTxn' = FALSE

Step == ops < MaxOps /\ ops' = ops + 1

\* ------------------------------------------------------------------------
\* save_salary_df and save_salary_draft
\* ------------------------------------------------------------------------

\* INSERT OR IGNORE INTO salary (employee_id, year, month): ignored only when
\* a UNIQUE(employee_id, year, month) constraint exists and is hit
InsertOrIgnoreSalary(d, e, m) ==
    IF schema = "unique_status" /\ SalaryOf(d, e, m) # {}
    THEN d
    ELSE [d EXCEPT !.salary = @ \cup {NewSalary(d.seq + 1, e, m)}, !.seq = @ + 1]

\* variant: the upsert without its WHERE status != 'final'
UpsertDraftSalary_AnyStatus(d, e, m) ==
    IF SalaryOf(d, e, m) # {}
    THEN [d EXCEPT !.salary = {IF r.employee_id = e /\ r.month = m
                               THEN [r EXCEPT !.status = "draft"] ELSE r : r \in @}]
    ELSE [d EXCEPT !.salary = @ \cup {NewSalary(d.seq + 1, e, m)}, !.seq = @ + 1]

\* INSERT INTO salary (..., status) VALUES (..., 'draft') ON CONFLICT(employee_id,
\* year, month) DO UPDATE SET status = 'draft' WHERE status != 'final'
UpsertDraftSalary(d, e, m) ==
    IF SalaryOf(d, e, m) # {}
    THEN [d EXCEPT !.salary = {IF r.employee_id = e /\ r.month = m /\ r.status # "final"
                               THEN [r EXCEPT !.status = "draft"] ELSE r : r \in @}]
    ELSE [d EXCEPT !.salary = @ \cup {NewSalary(d.seq + 1, e, m)}, !.seq = @ + 1]

\* one iteration of the loop of save_salary_df (fn = "save_salary_df") or of
\* save_salary_draft, cut after `stage` statements (3 = the whole iteration)
SaveRow(fn, d, m, row, stage) ==
    LET e == emp_map(row.name)
    IN IF e = 0 \/ stage = 0 THEN d
       ELSE LET d1 == IF fn = "save_salary_df" THEN InsertOrIgnoreSalary(d, e, m)
                      ELSE UpsertDraftSalary(d, e, m)
                sid == SelectSalaryId(d1, e, m)
                d2 == DeleteDetails(d1, sid)
                d3 == InsertRowDetails(d2, sid, row.items, Items)
            IN CASE stage = 1 -> d1
                 [] stage = 2 -> d2
                 [] OTHER -> d3

\* for _, row in df.iterrows(): the first k rows
RECURSIVE SaveRows(_, _, _, _, _)
SaveRows(fn, d, m, df, k) ==
    IF k = 0 THEN d
    ELSE SaveRow(fn, SaveRows(fn, d, m, df, k - 1), m, df[k], 3)

\* save_salary_df(conn, year, month, calculate_salary_df(conn, year, month, S))
save_salary_df(m, S) ==
    LET df == calculate_salary_df(m, S)
    IN /\ Step
       /\ Commits(SaveRows("save_salary_df", db, m, df, Len(df)))
       /\ last' = Call("save_salary_df", m, TRUE, 0, df, {})
       /\ UNCHANGED <<schema, inputs>>

\* a statement of the last row raises (a database error) after `stage`
\* statements of that row: the function has no except clause
save_salary_df_fails(m, stage) ==
    LET df == calculate_salary_df(m, {})
    IN /\ Step
       /\ Len(df) > 0
       /\ LeavesOpen(SaveRow("save_salary_df",
                             SaveRows("save_salary_df", db, m, df, Len(df) - 1),
                             m, df[Len(df)], stage))
       /\ last' = Call("save_salary_df", m, FALSE, 0, df, {})
       /\ UNCHANGED <<schema, inputs>>

\* save_salary_draft(conn, year, month, calculate_salary_df(...)); its INSERT
\* prepares only against a salary table with a status column and a
\* UNIQUE(employee_id, year, month) key
save_salary_draft(m, S) ==
    LET df == calculate_salary_df(m, S)
    IN /\ Step
       /\ schema = "unique_status"
       /\ Commits(SaveRows("save_salary_draft", db, m, df, Len(df)))
       /\ last' = Call("save_salary_draft", m, TRUE, 0, df, {})
       /\ UNCHANGED <<schema, inputs>>

save_salary_draft_fails(m, stage) ==
    LET df == calculate_salary_df(m, {})
    IN /\ Step
       /\ schema = "unique_status"
       /\ Len(df) > 0
       /\ LeavesOpen(SaveRow("save_salary_draft",
                             SaveRows("save_salary_draft", db, m, df, Len(df) - 1),
                             m, df[Len(df)], stage))
       /\ last' = Call("save_salary_draft", m, FALSE, 0, df, {})
       /\ UNCHANGED <<schema, inputs>>

\* ------------------------------------------------------------------------
\* generate_monthly_salaries
\* ------------------------------------------------------------------------

\* for item_id, amount in default_items.items(): INSERT INTO salary_detail
RECURSIVE InsertDefaultItems(_, _, _, _)
InsertDefaultItems(d, sid, default_items, todo) ==
    IF todo = {} THEN d
    ELSE LET i == CHOOSE j \in todo : TRUE
         IN InsertDefaultItems(InsertDetail(d, sid, i, default_items[i]), sid,
                               default_items, todo \ {i})

\* the loop body: INSERT INTO salary, cursor.lastrowid, the detail rows
RECURSIVE GenerateRows(_, _, _, _)
GenerateRows(d, m, emps, default_items) ==
    IF emps = <<>> THEN d
    ELSE LET id == d.seq + 1
             d1 == [d EXCEPT !.salary = @ \cup {NewSalary(id, Head(emps), m)}, !.seq = id]
             d2 == InsertDefaultItems(d1, id, default_items, DOMAIN default_items)
         IN GenerateRows(d2, m, Tail(emps), default_items)

generate_monthly_salaries(m, default_items) ==
    LET emps == SortedSeq(ActiveIds(m))
        \* the plain INSERT hits the UNIQUE key of the salary table
        conflict == schema = "unique_status" /\ \E e \in ActiveIds(m) : SalaryOf(db, e, m) # {}
    IN /\ Step
       /\ IF emps = <<>>
          THEN /\ UNCHANGED <<db, committed, inTxn>>
               /\ last' = Call("generate_monthly_salaries", m, TRUE, 0, <<>>, {})
          ELSE IF inTxn \/ conflict
          THEN \* BEGIN TRANSACTION or the INSERT raises: except -> rollback, raise
               /\ RollsBack
               /\ last' = Call("generate_monthly_salaries", m, FALSE, 0, <<>>, {})
          ELSE /\ Commits(GenerateRows(db, m, emps, default_items))
               /\ last' = Call("generate_monthly_salaries", m, TRUE, Len(emps), <<>>, {})
       /\ UNCHANGED <<schema, inputs>>

\* ------------------------------------------------------------------------
\* delete_salary_records
\* ------------------------------------------------------------------------

\* variant: the delete without its first DELETE statement
DeleteMonthDetails_Skipped(d, m) == d

\* DELETE FROM salary_detail WHERE salary_id IN (ids)
DeleteMonthDetails(d, m) ==
    [d EXCEPT !.salary_detail = @ \ DetailsOfMonth(d, m)]

\* DELETE FROM salary WHERE id IN (ids)
DeleteMonthSalary(d, m) ==
    [d EXCEPT !.salary = @ \ SalaryOfMonth(d, m)]

delete_salary_records(m) ==
    /\ Step
    /\ IF inTxn
       THEN \* BEGIN TRANSACTION raises inside the try: rollback, raise
            /\ RollsBack
            /\ last' = Call("delete_salary_records", m, FALSE, 0, <<>>, {})
       ELSE IF SalaryOfMonth(db, m) = {}
       THEN \* return 0 after BEGIN TRANSACTION, with neither commit nor rollback
            /\ UNCHANGED <<db, committed>>
            /\ inTxn' = TRUE
            /\ last' = Call("delete_salary_records", m, TRUE, 0, <<>>, {})
       ELSE /\ Commits(DeleteMonthSalary(DeleteMonthDetails(db, m), m))
            /\ last' = Call("delete_salary_records", m, TRUE,
                            Cardinality(SalaryOfMonth(db, m)), <<>>, {})
    /\ UNCHANGED <<schema, inputs>>

\* a DELETE raises (a database error) after the detail rows were deleted
delete_salary_records_fails(m) ==
    /\ Step
    /\ ~inTxn
    /\ SalaryOfMonth(db, m) # {}
    /\ RollsBack
    /\ last' = Call("delete_salary_records", m, FALSE, 0, <<>>, {})
    /\ UNCHANGED <<schema, inputs>>

\* ------------------------------------------------------------------------
\* get_salary_report_for_editing of utils_salary_calc (the editor's table)
\* ------------------------------------------------------------------------

\* rows of salary_detail of item i under the salary rows of (employee, month)
EmpItemRows(d, e, m, i) ==
    LET ids == {r.id : r \in SalaryOf(d, e, m)}
    IN {x \in d.salary_detail : x.item = i /\ x.salary_id \in ids}

\* columns of details_df.pivot_table(index='employee_id', columns='item_name')
PivotCols(d, m) == {x.item : x \in DetailsOfMonth(d, m)}

\* employees with a row in the report: salary JOIN employee ... GROUP BY e.id
ReportEmployees(d, m) == {r.employee_id : r \in SalaryOfMonth(d, m)}

\* per item the sum and the number of the employee's detail rows
PivotCells(d, e, m) ==
    [i \in Items |->
        LET rows == EmpItemRows(d, e, m, i)
        IN [sum |-> SumOver(rows, [x \in rows |-> x.amount]), cnt |-> Cardinality(rows)]]

RECURSIVE PivotDenOver(_, _)
PivotDenOver(cells, todo) ==
    IF todo = {} THEN 1
    ELSE LET i == CHOOSE j \in todo : TRUE
         IN (IF cells[i].cnt = 0 THEN 1 ELSE cells[i].cnt) * PivotDenOver(cells, todo \ {i})

\* pivot_table aggregates with the mean: a cell is PivotNum / PivotDen, and
\* fillna(0) where the employee has no row of the item
PivotDen(cells) == PivotDenOver(cells, Items)

PivotNum(cells, den, i) ==
    IF cells[i].cnt = 0 THEN 0 ELSE cells[i].sum * (den \div cells[i].cnt)

\* report_df[cols].sum(axis=1), as a numerator over PivotDen
PivotSum(cells, den, cols) ==
    SumOver(cols, [i \in cols |-> PivotNum(cells, den, i)])

EarningCols(cols) == {i \in cols : item_types[i] = "earning"}

DeductionCols(cols) == {i \in cols : item_types[i] = "deduction"}

\* bank_cols = ['底薪', '加班費', '勞健保', '事假', '病假', '遲到', '早退']
BankCols(cols) == cols \cap {"base", "overtime", "insurance", "late", "early_leave"}

\* s.bank_transfer_override of the GROUP BY e.id row: sqlite evaluates the
\* bare column on the first row of the group
OverrideOf(d, e, m) ==
    (CHOOSE r \in SalaryOf(d, e, m) : r.id = SelectSalaryId(d, e, m)).bank_transfer_override

\* one row of the table, every numeric column .astype(int)
CalcReportRow(d, e, m) ==
    LET cells == PivotCells(d, e, m)
        cols == PivotCols(d, m)
        den == PivotDen(cells)
        payable == PivotSum(cells, den, EarningCols(cols))
        deduction == PivotSum(cells, den, DeductionCols(cols))
        o == OverrideOf(d, e, m)
        bank == IF o # NULL /\ o[1] # 0 THEN o[1] * den
                ELSE PivotSum(cells, den, BankCols(cols))
    IN [name |-> name_ch[e],
        items |-> [i \in cols |-> TruncDiv(PivotNum(cells, den, i), den)],
        payable |-> TruncDiv(payable, den),
        deduction |-> TruncDiv(deduction, den),
        net |-> TruncDiv(payable + deduction, den),
        bank |-> TruncDiv(bank, den),
        cash |-> TruncDiv(payable + deduction - bank, den)]

CalcReport(d, m) == [e \in ReportEmployees(d, m) |-> CalcReportRow(d, e, m)]

\* ------------------------------------------------------------------------
\* save_data_editor_changes of utils_salary_calc
\* ------------------------------------------------------------------------

\* for item_name, amount in row.items(): DELETE the detail, INSERT if != 0
RECURSIVE EditorItems(_, _, _, _)
EditorItems(d, sid, items, todo) ==
    IF todo = {} THEN d
    ELSE LET i == CHOOSE j \in todo : TRUE
             d1 == DeleteDetailsOfItem(d, sid, i)
             d2 == IF items[i] # 0 THEN InsertDetail(d1, sid, i, items[i]) ELSE d1
         IN EditorItems(d2, sid, items, todo \ {i})

\* UPDATE salary SET bank_transfer_override = ? WHERE id = ?
SetOverride(d, sid, amount) ==
    [d EXCEPT !.salary = {IF r.id = sid THEN [r EXCEPT !.bank_transfer_override = <<amount>>]
                          ELSE r : r \in @}]

\* one row of edited_df
EditorRow(d, m, row) ==
    LET e == emp_map(row.name)
    IN IF e = 0 \/ SalaryOf(d, e, m) = {} THEN d
       ELSE LET sid == SelectSalaryId(d, e, m)
            IN SetOverride(EditorItems(d, sid, row.items, DOMAIN row.items), sid, row.bank)

RECURSIVE EditorRows(_, _, _, _)
EditorRows(d, m, edited_df, todo) ==
    IF todo = {} THEN d
    ELSE LET e == CHOOSE x \in todo : TRUE
         IN EditorRows(EditorRow(d, m, edited_df[e]), m, edited_df, todo \ {e})

\* the table of the data editor with the cell (e, col) set to a; col is an
\* item column or "bank" (匯入銀行)
EditedReport(report_df, e, col, a) ==
    [report_df EXCEPT ![e] = IF col = "bank" THEN [@ EXCEPT !.bank = a]
                                ELSE [@ EXCEPT !.items[col] = a]]

\* display_and_edit_section: the operator changes one cell of report_df and
\* presses save: save_data_editor_changes(conn, year, month, edited_df)
save_data_editor_changes(m, report_df, e, col, a) ==
    LET edited_df == EditedReport(report_df, e, col, a)
    IN /\ Step
       /\ e \in DOMAIN report_df
       /\ col \in DOMAIN report_df[e].items \cup {"bank"}
       /\ edited_df # report_df
       /\ Commits(EditorRows(db, m, edited_df, DOMAIN edited_df))
       /\ last' = Call("save_data_editor_changes", m, TRUE, 0,
                       <<[col |-> col, amount |-> a]>>, {e})
       /\ UNCHANGED <<schema, inputs>>

\* ------------------------------------------------------------------------
\* batch_update_salary_details_from_excel of utils_salary_calc
\* ------------------------------------------------------------------------

\* the first row of SELECT id FROM salary_detail WHERE salary_id = ? AND
\* salary_item_id = ?; UPDATE salary_detail SET amount = ? WHERE id = ?
UpdateFirstDetail(d, sid, i, a) ==
    LET rows == DetailsOfItem(d, sid, i)
        first == CHOOSE x \in rows : \A y \in rows : x.n <= y.n
    IN [d EXCEPT !.salary_detail = (@ \ {first}) \cup {[first EXCEPT !.amount = a]}]

\* variant: the cell is inserted without looking for an existing row
ImportCell_AlwaysInsert(d, sid, col, amount) ==
    IF col \notin Items THEN d
    ELSE InsertDetail(d, sid, col,
                      IF item_types[col] = "deduction" THEN -Abs(amount) ELSE Abs(amount))

\* variant: the amount is stored with the sign it has in the file
ImportCell_SignAsInFile(d, sid, col, amount) ==
    IF col \notin Items THEN d
    ELSE IF DetailsOfItem(d, sid, col) # {}
         THEN UpdateFirstDetail(d, sid, col, amount)
         ELSE InsertDetail(d, sid, col, amount)

\* one cell (item_name, amount) of one row of the file
ImportCell(d, sid, col, amount) ==
    IF col \notin Items THEN d
    ELSE LET final_amount == IF item_types[col] = "deduction" THEN -Abs(amount) ELSE Abs(amount)
         IN IF DetailsOfItem(d, sid, col) # {}
            THEN UpdateFirstDetail(d, sid, col, final_amount)
            ELSE InsertDetail(d, sid, col, final_amount)

\* whether the cell ends in report["success"]
ImportApplies(d, m, name, col) ==
    /\ emp_map(name) # 0
    /\ SalaryOf(d, emp_map(name), m) # {}
    /\ col \in Items

\* the report returned: success entries, skipped_emp, skipped_item
ImportReport(d, m, name, col) ==
    [success |-> IF ImportApplies(d, m, name, col) THEN {<<name, col>>} ELSE {},
     skipped_emp |-> IF emp_map(name) = 0 THEN {name} ELSE {},
     skipped_item |-> IF /\ emp_map(name) # 0
                         /\ SalaryOf(d, emp_map(name), m) # {}
                         /\ col \notin Items
                      THEN {col} ELSE {}]

\* a file of one row with one amount cell
batch_update_salary_details_from_excel(m, name, col, amount) ==
    LET e == emp_map(name)
        d == IF e = 0 \/ SalaryOf(db, e, m) = {} THEN db
             ELSE ImportCell(db, SelectSalaryId(db, e, m), col, amount)
    IN /\ Step
       /\ Commits(d)
       /\ last' = Call("batch_update_salary_details_from_excel", m, TRUE,
                       ImportReport(db, m, name, col),
                       <<[name |-> name, col |-> col, amount |-> amount]>>,
                       IF e = 0 THEN {} ELSE {e})
       /\ UNCHANGED <<schema, inputs>>

\* ------------------------------------------------------------------------
\* get_salary_report_for_editing of utils_salary_report (draft/final aware)
\* ------------------------------------------------------------------------

\* active_emp_query: entry_date <= last day AND (resign_date IS NULL OR >= first day)
ActiveEmployees(m) == ActiveIds(m)

\* fillna(0) of a snapshot column
Fill0(v) == IF v = NULL THEN 0 ELSE v[1]

\* the row of employee e: report_df merged with SELECT * FROM salary (one row
\* per employee under the UNIQUE key) and with the pivot of the details.
\* This reader has no astype(int); under the key every (record, item) holds at
\* most one detail row, so PivotDen is 1 and the divisions below are exact.
StatusReportRow(d, e, m) ==
    LET cells == PivotCells(d, e, m)
        cols == PivotCols(d, m)
        den == PivotDen(cells)
        payable == TruncDiv(PivotSum(cells, den, EarningCols(cols)), den)
        deduction == TruncDiv(PivotSum(cells, den, DeductionCols(cols)), den)
        recs == SalaryOf(d, e, m)
        r == CHOOSE x \in recs : x.id = SelectSalaryId(d, e, m)
    IN IF recs # {} /\ r.status = "final"
       THEN \* final_mask: the columns stored on the salary row
            [name |-> name_ch[e], status |-> "final",
             payable |-> Fill0(r.total_payable), deduction |-> Fill0(r.total_deduction),
             net |-> Fill0(r.net_salary), bank |-> Fill0(r.bank_transfer_amount),
             cash |-> Fill0(r.cash_amount)]
       ELSE \* draft_mask: summed from the detail columns
            [name |-> name_ch[e], status |-> "draft",
             payable |-> payable, deduction |-> deduction,
             net |-> payable + deduction, bank |-> payable + deduction, cash |-> 0]

StatusReport(d, m) == [e \in ActiveEmployees(m) |-> StatusReportRow(d, e, m)]

\* ------------------------------------------------------------------------
\* finalize_salary_records and revert_salary_to_draft
\* ------------------------------------------------------------------------

\* variant: the UPDATE binds 應付總額 to net_salary as well
FinalizeRow_PayableAsNet(d, m, row) ==
    LET e == emp_map(row.name)
    IN [d EXCEPT !.salary =
          {IF r.employee_id = e /\ r.month = m
           THEN [r EXCEPT !.total_payable = <<row.payable>>,
                          !.total_deduction = <<row.deduction>>,
                          !.net_salary = <<row.payable>>,
                          !.bank_transfer_amount = <<row.bank>>,
                          !.cash_amount = <<row.cash>>,
                          !.status = "final"]
           ELSE r : r \in @}]

\* UPDATE salary SET total_payable = ..., status = 'final'
\* WHERE employee_id = ? AND year = ? AND month = ?
FinalizeRow(d, m, row) ==
    LET e == emp_map(row.name)
    IN [d EXCEPT !.salary =
          {IF r.employee_id = e /\ r.month = m
           THEN [r EXCEPT !.total_payable = <<row.payable>>,
                          !.total_deduction = <<row.deduction>>,
                          !.net_salary = <<row.net>>,
                          !.bank_transfer_amount = <<row.bank>>,
                          !.cash_amount = <<row.cash>>,
                          !.status = "final"]
           ELSE r : r \in @}]

RECURSIVE FinalizeRows(_, _, _, _)
FinalizeRows(d, m, df, todo) ==
    IF todo = {} THEN d
    ELSE LET e == CHOOSE x \in todo : TRUE
         IN FinalizeRows(FinalizeRow(d, m, df[e]), m, df, todo \ {e})

\* finalize_salary_records(conn, year, month, get_salary_report_for_editing(...))
finalize_salary_records(m) ==
    LET df == StatusReport(db, m)
    IN /\ Step
       /\ schema = "unique_status"
       /\ Commits(FinalizeRows(db, m, df, DOMAIN df))
       /\ last' = Call("finalize_salary_records", m, TRUE, 0, <<>>, DOMAIN df)
       /\ UNCHANGED <<schema, inputs>>

\* rows hit by UPDATE salary SET status = 'draft' WHERE year = ? AND month = ?
\* AND employee_id IN (...) AND status = 'final'
RevertHits(d, m, employee_ids) ==
    {r \in SalaryOfMonth(d, m) : r.employee_id \in employee_ids /\ r.status = "final"}

\* variant: the UPDATE without its employee_id IN (...) condition
RevertRows_AllEmployees(d, m, employee_ids) ==
    [d EXCEPT !.salary = {IF r.month = m /\ r.status = "final"
                          THEN [r EXCEPT !.status = "draft"] ELSE r : r \in @}]

RevertRows(d, m, employee_ids) ==
    [d EXCEPT !.salary = {IF r \in RevertHits(d, m, employee_ids)
                          THEN [r EXCEPT !.status = "draft"] ELSE r : r \in @}]

revert_salary_to_draft(m, employee_ids) ==
    /\ Step
    /\ schema = "unique_status"
    /\ IF employee_ids = {}
       THEN UNCHANGED <<db, committed, inTxn>>
       ELSE Commits(RevertRows(db, m, employee_ids))
    /\ last' = Call("revert_salary_to_draft", m, TRUE,
                    Cardinality(RevertHits(db, m, employee_ids)), <<>>, employee_ids)
    /\ UNCHANGED <<schema, inputs>>

\* ------------------------------------------------------------------------
\* Changes of the stored inputs (each ends with conn.commit())
\* ------------------------------------------------------------------------

delete_employee_salary_item(row) ==
    /\ Step
    /\ row \in employee_salary_item
    /\ employee_salary_item' = employee_salary_item \ {row}
    /\ Commits(db)
    /\ last' = Call("delete_employee_salary_item", 0, TRUE, 1, <<>>, {row.employee_id})
    /\ UNCHANGED <<schema, employee, insurance_grade, masters>>

\* the resign date the operator enters: the last day of the year before
ResignDate == Date(0, 31)

\* update_employee(conn, emp_id, {'resign_date': ...})
update_employee(e) ==
    /\ Step
    /\ employee[e].resign_date = NULL
    /\ employee' = [employee EXCEPT ![e].resign_date = <<ResignDate>>]
    /\ Commits(db)
    /\ last' = Call("update_employee", 0, TRUE, 1, <<>>, {e})
    /\ UNCHANGED <<schema, employee_salary_item, insurance_grade, masters>>

\* update_insurance_grade(conn, record_id, data) on the health row
update_insurance_grade(fee) ==
    /\ Step
    /\ \E g \in insurance_grade : g.type = "health" /\ g.employee_fee # fee
    /\ insurance_grade' = {IF g.type = "health" THEN [g EXCEPT !.employee_fee = fee] ELSE g :
                              g \in insurance_grade}
    /\ Commits(db)
    /\ last' = Call("update_insurance_grade", 0, TRUE, 0, <<>>, {})
    /\ UNCHANGED <<schema, employee_salary_item, employee, masters>>

\* ------------------------------------------------------------------------
\* Specifications
\* ------------------------------------------------------------------------

InitData ==
    /\ db = EmptyDb
    /\ committed = EmptyDb
    /\ inTxn = FALSE
    /\ employee_salary_item = RecurringRows
    /\ employee = [e \in Employees |-> EmployeeRow(<<Date(0, 1)>>, NULL, <<"TW">>, NULL)]
    /\ item_types = BasicCatalogue
    /\ salary_base_history = [e \in Employees |-> BaseSalary]
    /\ attendance = {}
    /\ insurance_grade = GradeRows
    /\ last = [op |-> "init", month |-> 0, ok |-> TRUE, ret |-> 0, df |-> <<>>, ids |-> {},
               pre |-> EmptyDb, preCommitted |-> EmptyDb]
    /\ ops = 0

\* the salary table as create_tables of init_db.py builds it
Init == schema = "init_db" /\ InitData

\* the salary table save_salary_draft and finalize_salary_records are written
\* against: status and snapshot columns, UNIQUE(employee_id, year, month)
InitStatus == schema = "unique_status" /\ InitData

SelfInsured == {{}, {"A"}}

InputChange ==
    \/ \E row \in RecurringRows : delete_employee_salary_item(row)
    \/ update_employee(2)
    \/ \E fee \in HealthFees : update_insurance_grade(fee)

Edits ==
    \/ \E m \in EditMonths :
          LET report_df == CalcReport(db, m)
          IN \E e \in Employees, col \in Items \cup {"bank"}, a \in EditAmounts :
                save_data_editor_changes(m, report_df, e, col, a)
    \/ \E m \in EditMonths, col \in Items \cup {"bogus"}, amount \in FileAmounts :
          batch_update_salary_details_from_excel(m, "A", col, amount)
    \/ \E m \in EditMonths : batch_update_salary_details_from_excel(m, "Z", "allowance", 300)

\* the calls wired to the pages, on the database of init_db.py
Next ==
    \/ \E m \in Months, S \in SelfInsured : save_salary_df(m, S)
    \/ \E m \in Months, stage \in {0, 2} : save_salary_df_fails(m, stage)
    \/ \E m \in Months : generate_monthly_salaries(m, DefaultItems)
    \/ \E m \in Months : delete_salary_records(m)
    \/ \E m \in Months : delete_salary_records_fails(m)
    \/ Edits
    \/ InputChange

Spec == Init /\ [][Next]_vars

\* the draft/final workflow of utils_salary_crud
NextStatus ==
    \/ \E m \in Months, S \in SelfInsured : save_salary_draft(m, S)
    \/ \E m \in Months, stage \in {0, 2} : save_salary_draft_fails(m, stage)
    \/ \E m \in Months : finalize_salary_records(m)
    \/ \E m \in Months, ids \in {{}, {1}, {1, 2}} : revert_salary_to_draft(m, ids)
    \/ \E m \in Months : delete_salary_records(m)
    \/ Edits
    \/ InputChange

SpecStatus == InitStatus /\ [][NextStatus]_vars

\* ------------------------------------------------------------------------
\* The calculator over stored inputs of any shape
\* ------------------------------------------------------------------------

\* the draft preview of show_page: the button, then every rerun of the draft
\* step, calls calculate_salary_df(conn, year, month, non_insured_names) and
\* shows the table; nothing is written
preview_salary_draft(m, S) ==
    /\ Step
    /\ last' = Call("calculate_salary_df", m, TRUE, S, calculate_salary_df(m, S), {})
    /\ UNCHANGED <<schema, db, committed, inTxn, inputs>>

\* entry_date and resign_date values of an employee row (date_input of the
\* employee form; entry_date may be left empty)
EntryDates == {NULL, <<Date(1, 31)>>, <<Date(2, 1)>>, <<Date(3, 1)>>}

ResignDates == {NULL, <<Date(0, 31)>>, <<Date(1, 1)>>, <<Date(2, 1)>>}

EmployeeRows == {EmployeeRow(en, rs, <<"TW">>, NULL) : en \in EntryDates, rs \in ResignDates}

\* contents of employee_salary_item: the standing rows, an assignment that
\* ended the year before, one that starts in month 2, one that starts after
\* the modelled months
RecurringTables ==
    {RecurringRows,
     {RecurringRow(1, "allowance", 500, Date(0, 1), <<Date(0, 31)>>)},
     {RecurringRow(1, "allowance", 500, Date(0, 1), NULL),
      RecurringRow(1, "allowance", -200, Date(2, 1), NULL)},
     {RecurringRow(2, "allowance", -500, Date(3, 1), NULL)}}

\* contents of insurance_grade: the standing schedules; a newer health
\* schedule in force from month 1; a health schedule announced for month 3;
\* two bands meeting at the base salary; tables whose bands end below or
\* start above the base salary
GradeTables ==
    {GradeRows,
     GradeRows \cup {GradeRow("health", Date(1, 1), 0, 45800, 550)},
     GradeRows \cup {GradeRow("health", Date(3, 1), 0, 45800, 600)},
     {GradeRow("labor", Date(0, 1), 0, 30000, 900),
      GradeRow("labor", Date(0, 1), 30001, 45800, 1000),
      GradeRow("health", Date(0, 1), 0, 30000, 450),
      GradeRow("health", Date(0, 1), 30001, 45800, 500)},
     {GradeRow("labor", Date(0, 1), 0, 25000, 800),
      GradeRow("health", Date(0, 1), 0, 25000, 400)},
     {GradeRow("labor", Date(0, 1), 30001, 45800, 1000),
      GradeRow("health", Date(0, 1), 30001, 45800, 500)}}

InitCalc ==
    /\ schema = "init_db"
    /\ db = EmptyDb
    /\ committed = EmptyDb
    /\ inTxn = FALSE
    /\ employee \in [Employees -> EmployeeRows]
    /\ item_types = BasicCatalogue
    /\ salary_base_history = [e \in Employees |-> BaseSalary]
    /\ attendance = {}
    /\ employee_salary_item \in RecurringTables
    /\ insurance_grade \in GradeTables
    /\ last = [op |-> "init", month |-> 0, ok |-> TRUE, ret |-> 0, df |-> <<>>, ids |-> {},
               pre |-> EmptyDb, preCommitted |-> EmptyDb]
    /\ ops = 0

NextCalc == \E m \in Months, S \in SelfInsured : preview_salary_draft(m, S)

SpecCalc == InitCalc /\ [][NextCalc]_vars

\* ------------------------------------------------------------------------
\* The calculator over attendance, nationality and base salary
\* ------------------------------------------------------------------------

\* rows of salary_item naming every key the calculator writes
PayrollCatalogue ==
    [base |-> "earning", overtime |-> "earning", overtime2 |-> "earning",
     allowance |-> "earning", late |-> "deduction", early_leave |-> "deduction",
     insurance |-> "deduction", nhi_supplement |-> "deduction", tax |-> "deduction"]

\* a row of attendance of month 1
AttendanceRow(e, ot1, ot2, late, early) ==
    [employee_id |-> e, month |-> 1, overtime1_minutes |-> ot1, overtime2_minutes |-> ot2,
     late_minutes |-> late, early_leave_minutes |-> early]

\* contents of attendance: none; ten hours of tier-1 overtime; lateness
\* alone; early leave alone; a day with all four
AttendanceTables ==
    {{},
     {AttendanceRow(1, 600, 0, 0, 0)},
     {AttendanceRow(1, 0, 0, 30, 0)},
     {AttendanceRow(1, 0, 0, 0, 30)},
     {AttendanceRow(1, 90, 60, 20, 10)}}

\* employee.nationality: not set, domestic, foreign
Nationalities == {NULL, <<"TW">>, <<"VN">>}

\* employee.arrival_date: not set, 183 and 182 days before January 1
ArrivalDates == {NULL, <<-183>>, <<-182>>}

\* salary_base_history.base_salary of employee 1
BaseSalaries == {28589, 28590, 30000, 90000}

\* contents of employee_salary_item: none, or a standing allowance
AllowanceTables == {{}, {RecurringRow(1, "allowance", 30000, Date(0, 1), NULL)}}

InitLine ==
    /\ schema = "init_db"
    /\ db = EmptyDb
    /\ committed = EmptyDb
    /\ inTxn = FALSE
    /\ \E n \in Nationalities, a \in ArrivalDates :
          employee = [e \in Employees |->
                         IF e = 1 THEN EmployeeRow(<<Date(0, 1)>>, NULL, n, a)
                         ELSE EmployeeRow(<<Date(0, 1)>>, NULL, <<"TW">>, NULL)]
    /\ \E b \in BaseSalaries :
          salary_base_history = [e \in Employees |-> IF e = 1 THEN b ELSE BaseSalary]
    /\ attendance \in AttendanceTables
    /\ employee_salary_item \in AllowanceTables
    /\ insurance_grade = {GradeRow("labor", Date(0, 1), 0, 150000, 1000),
                          GradeRow("health", Date(0, 1), 0, 150000, 500)}
    /\ item_types = PayrollCatalogue
    /\ last = [op |-> "init", month |-> 0, ok |-> TRUE, ret |-> 0, df |-> <<>>, ids |-> {},
               pre |-> EmptyDb, preCommitted |-> EmptyDb]
    /\ ops = 0

\* the draft preview of either month, with or without a self-insured employee
NextLine == \E m \in Months, S \in SelfInsured : preview_salary_draft(m, S)

SpecLine == InitLine /\ [][NextLine]_vars

\* ------------------------------------------------------------------------
\* Observations of the stored payroll
\* ------------------------------------------------------------------------

\* the salary rows of a month and the detail rows under them
MonthData(d, m) == [salary |-> SalaryOfMonth(d, m), salary_detail |-> DetailsOfMonth(d, m)]

\* (employee_id, item, amount) of a detail row: salary_detail JOIN salary
DetailTriple(d, x) ==
    [employee_id |-> (CHOOSE r \in d.salary : r.id = x.salary_id).employee_id,
     item |-> x.item, amount |-> x.amount]

\* the detail rows of a month as (employee_id, item, amount), with how many
\* rows carry each triple
DetailBag(d, m) ==
    LET rows == DetailsOfMonth(d, m)
    IN [t \in {DetailTriple(d, x) : x \in rows} |->
            Cardinality({x \in rows : DetailTriple(d, x) = t})]

\* the non-zero catalogue items of a table T, one row each
TableBag(df) ==
    [t \in {[employee_id |-> emp_map(df[k].name), item |-> i, amount |-> df[k].items[i]] :
                k \in DOMAIN df, i \in Items} \ 
           {[employee_id |-> emp_map(df[k].name), item |-> i, amount |-> 0] :
                k \in DOMAIN df, i \in Items} |-> 1]

\* the five snapshot columns of a salary row
Snapshot(r) ==
    <<r.total_payable, r.total_deduction, r.net_salary, r.bank_transfer_amount, r.cash_amount>>

\* totals summed directly from the detail rows under the records of (e, m)
LiveTotals(d, e, m) ==
    LET rows == {x \in DetailsOfMonth(d, m) : DetailTriple(d, x).employee_id = e}
        earn == {x \in rows : item_types[x.item] = "earning"}
        ded == {x \in rows : item_types[x.item] = "deduction"}
        payable == SumOver(earn, [x \in earn |-> x.amount])
        deduction == SumOver(ded, [x \in ded |-> x.amount])
    IN [payable |-> payable, deduction |-> deduction, net |-> payable + deduction]

SaveOps == {"save_salary_df", "save_salary_draft"}

InputOps == {"delete_employee_salary_item", "update_employee", "update_insurance_grade"}

\* ------------------------------------------------------------------------
\* Properties
\* ------------------------------------------------------------------------

\* C1: in every reachable state there is at most one salary record for each
\* (employee, year, month); a save for a month that already has records
\* creates no second record for an employee.
C1_OneRecordPerEmployeeMonth ==
    \A e \in Employees, m \in Months : Cardinality(SalaryOf(db, e, m)) <= 1

C3_NoPartialRunCommitted ==
    last.op \in InputOps =>
        \A m \in Months : MonthData(committed, m) = MonthData(last.preCommitted, m)

\* C4: while a record is final its detail rows are not changed by a save, by a
\* manual edit or by a batch import.
C4_FinalDetailsImmutable ==
    last.op \in SaveOps \cup {"save_data_editor_changes",
                              "batch_update_salary_details_from_excel"} =>
        \A r \in last.pre.salary :
            r.status = "final" => DetailsOf(db, r.id) = DetailsOf(last.pre, r.id)

\* C5: every read of the report of a final record returns the totals stored on
\* the record at finalize, through either get_salary_report_for_editing.
C5_FinalReadsReturnSnapshot ==
    \A m \in Months, e \in Employees :
        \A r \in SalaryOf(db, e, m) :
            r.status = "final" =>
                /\ LET row == CalcReportRow(db, e, m)
                   IN <<row.payable, row.deduction, row.net, row.bank, row.cash>> =
                        <<Fill0(r.total_payable), Fill0(r.total_deduction), Fill0(r.net_salary),
                          Fill0(r.bank_transfer_amount), Fill0(r.cash_amount)>>
                /\ e \in ActiveEmployees(m) =>
                     LET row == StatusReportRow(db, e, m)
                     IN <<row.payable, row.deduction, row.net, row.bank, row.cash>> =
                          <<Fill0(r.total_payable), Fill0(r.total_deduction),
                            Fill0(r.net_salary), Fill0(r.bank_transfer_amount),
                            Fill0(r.cash_amount)>>

\* C6: finalize, called with the report table of the month, sets the record of
\* every employee in the table to final and stores on it exactly the five
\* totals the report showed; no record is final without its snapshot columns.
C6_FinalizeStoresReportTotals ==
    /\ \A r \in db.salary :
          r.status = "final" => \A k \in 1..5 : Snapshot(r)[k] # NULL
    /\ (last.op = "finalize_salary_records" /\ last.ok) =>
          \A e \in last.ids :
              \A r \in SalaryOf(db, e, last.month) :
                  LET row == StatusReportRow(last.pre, e, last.month)
                  IN /\ r.status = "final"
                     /\ Snapshot(r) = <<<<row.payable>>, <<row.deduction>>, <<row.net>>,
                                        <<row.bank>>, <<row.cash>>>>

\* a draft record with non-zero earnings and deductions was finalized
C6_DraftFinalized ==
    /\ last.op = "finalize_salary_records" /\ last.ok
    /\ \E e \in last.ids :
          \E r \in SalaryOf(db, e, last.month), q \in SalaryOf(last.pre, e, last.month) :
              /\ q.status = "draft"
              /\ r.status = "final"
              /\ r.total_payable # <<0>>
              /\ r.total_deduction # <<0>>
              /\ r.net_salary # r.total_payable

C9_SaveIsIdempotent ==
    (last.op = "save_salary_df" /\ last.ok) =>
        /\ \E S \in SelfInsured : calculate_salary_df(last.month, S) = last.df
        /\ \A S \in SelfInsured :
              LET df == calculate_salary_df(last.month, S)
              IN df = last.df =>
                    DetailBag(SaveRows("save_salary_df", db, last.month, df, Len(df)),
                              last.month) = DetailBag(db, last.month)

\* the month was saved a second time with the same table
C9_SavedTwice ==
    /\ last.op = "save_salary_df" /\ last.ok
    /\ Len(last.df) = 2
    /\ SalaryOfMonth(last.pre, last.month) # {}
    /\ DetailBag(last.pre, last.month) = TableBag(last.df)
    /\ DetailBag(db, last.month) = DetailBag(last.pre, last.month)

\* C10: after save_draft(Y, M, T) the detail rows stored for the month are
\* exactly the non-zero items of T; an employee absent from T keeps none.
C10_SaveReplacesWholeMonth ==
    (last.op \in SaveOps /\ last.ok) => DetailBag(db, last.month) = TableBag(last.df)

\* C11: in every reachable state the detail rows under one salary record hold
\* at most one row per salary item.
C11_OneDetailPerItem ==
    \A r \in db.salary, i \in Items : Cardinality(DetailsOfItem(db, r.id, i)) <= 1

\* a record written by a save or a generate, then by an import, then by a
\* manual edit
C11_SavedImportedEdited ==
    /\ last.op = "save_data_editor_changes"
    /\ \E r \in db.salary :
          /\ \E x \in DetailsOfItem(last.pre, r.id, "allowance") : x.amount = 300
          /\ Cardinality(DetailsOfItem(db, r.id, "allowance")) = 1
          /\ Cardinality(DetailsOfItem(db, r.id, "base")) = 1
          /\ DetailsOf(db, r.id) # DetailsOf(last.pre, r.id)

\* C12: a manual edit of one cell (employee, item, amount) leaves exactly one
\* detail row of that (record, item), holding the new amount (none when the
\* amount is 0), and leaves every other detail row unchanged.
C12_EditTouchesOneDetail ==
    (last.op = "save_data_editor_changes" /\ last.df[1].col \in Items) =>
        \A e \in last.ids :
            LET sid == SelectSalaryId(last.pre, e, last.month)
                col == last.df[1].col
                a == last.df[1].amount
                Other(d) == {x \in d.salary_detail : ~(x.salary_id = sid /\ x.item = col)}
            IN /\ {x.amount : x \in DetailsOfItem(db, sid, col)} =
                    (IF a = 0 THEN {} ELSE {a})
               /\ Cardinality(DetailsOfItem(db, sid, col)) <= 1
               /\ Other(db) = Other(last.pre)

\* C13: every stored detail of a deduction item has amount <= 0 and every
\* stored detail of an earning item has amount >= 0.
C13_SignMatchesType ==
    \A x \in db.salary_detail :
        IF item_types[x.item] = "deduction" THEN x.amount <= 0 ELSE x.amount >= 0

\* C14: for a file cell whose employee and item are matched and whose employee
\* has a record for the month, the import stores -|amount| for a deduction
\* item and +|amount| for an earning item, by updating the existing detail row
\* of that (record, item) or inserting one, and changes no other detail row;
\* any other cell changes nothing.
C14_ImportNormalisesAndUpserts ==
    last.op = "batch_update_salary_details_from_excel" =>
        LET cell == last.df[1]
            e == emp_map(cell.name)
        IN IF e # 0 /\ SalaryOf(last.pre, e, last.month) # {} /\ cell.col \in Items
           THEN LET sid == SelectSalaryId(last.pre, e, last.month)
                    want == IF item_types[cell.col] = "deduction"
                            THEN -Abs(cell.amount) ELSE Abs(cell.amount)
                    before == DetailsOfItem(last.pre, sid, cell.col)
                    after == DetailsOfItem(db, sid, cell.col)
                    Other(d) == {x \in d.salary_detail :
                                    ~(x.salary_id = sid /\ x.item = cell.col)}
                IN /\ {x.amount : x \in after} = {want}
                   /\ Cardinality(after) = (IF before = {} THEN 1 ELSE Cardinality(before))
                   /\ Other(db) = Other(last.pre)
                   /\ db.salary = last.pre.salary
                   /\ <<cell.name, cell.col>> \in last.ret.success
           ELSE /\ db = last.pre
                /\ last.ret.success = {}

\* a negative amount in the file for an earning item replaced the stored row
C14_NegativeEarningUpdated ==
    /\ last.op = "batch_update_salary_details_from_excel"
    /\ last.df[1].amount = -300
    /\ last.df[1].col = "allowance"
    /\ \E r \in db.salary :
          /\ r.employee_id = emp_map(last.df[1].name)
          /\ {x.amount : x \in DetailsOfItem(last.pre, r.id, "allowance")} = {500}
          /\ {x.amount : x \in DetailsOfItem(db, r.id, "allowance")} = {300}

\* C15: every non-empty cell of an imported file is either applied and listed
\* in the report's success entries, or listed as skipped employee or skipped
\* item; no cell is dropped without appearing in the report.
C15_EveryCellReported ==
    last.op = "batch_update_salary_details_from_excel" =>
        LET cell == last.df[1]
        IN \/ <<cell.name, cell.col>> \in last.ret.success
           \/ cell.name \in last.ret.skipped_emp
           \/ cell.col \in last.ret.skipped_item

\* C16: whenever the record of (employee, month) holds a non-zero
\* bank_transfer_override, every read of the month's report shows that amount
\* as the bank transfer of the employee, whatever happened since it was set,
\* and the cash shown is the net pay minus the bank transfer shown; this holds
\* for the report of utils_salary_calc and for the draft rows of the report
\* of utils_salary_report.
C16_OverrideTakesPrecedence ==
    \A m \in Months, e \in Employees :
        (/\ SalaryOf(db, e, m) # {}
         /\ OverrideOf(db, e, m) # NULL
         /\ OverrideOf(db, e, m)[1] # 0) =>
            /\ LET row == CalcReportRow(db, e, m)
               IN /\ row.bank = OverrideOf(db, e, m)[1]
                  /\ row.cash = row.net - row.bank
            /\ e \in ActiveEmployees(m) =>
                  LET row == StatusReportRow(db, e, m)
                  IN row.status = "draft" =>
                        /\ row.bank = OverrideOf(db, e, m)[1]
                        /\ row.cash = row.net - row.bank

\* C17: the table calculated for month M has a row of an employee if and only
\* if the employee's entry_date is on or before the last day of M and the
\* resign_date is NULL or on or after the first day of M; an employee without
\* entry date has no row; no employee has more than one row.
C17_RosterIsActiveInMonth ==
    last.op = "calculate_salary_df" =>
        LET rowsOf(e) == {k \in 1..Len(last.df) : last.df[k].name = name_ch[e]}
            entry(e) == employee[e].entry_date
            resign(e) == employee[e].resign_date
        IN /\ \A e \in Employees :
                /\ rowsOf(e) # {} <=>
                      /\ entry(e) # NULL
                      /\ entry(e)[1] <= Date(last.month, days_in_month(last.month))
                      /\ resign(e) = NULL \/ resign(e)[1] >= Date(last.month, 1)
                /\ entry(e) = NULL => rowsOf(e) = {}
                /\ Cardinality(rowsOf(e)) <= 1
           /\ \A k \in 1..Len(last.df) : \E e \in Employees : k \in rowsOf(e)

\* month 1 calculated while A entered on its last day and left on the first
\* day of month 2, and B has no entry date: the table is A's row alone
C17_EnteredOnLastDay ==
    /\ last.op = "calculate_salary_df"
    /\ last.month = 1
    /\ employee[1].entry_date = <<Date(1, 31)>>
    /\ employee[1].resign_date = <<Date(2, 1)>>
    /\ employee[2].entry_date = NULL
    /\ Len(last.df) = 1
    /\ last.df[1].name = "A"

\* C18: the insurance deduction of a calculated line of month M is taken, for
\* labor and for health, from the schedule with the greatest start_date that
\* is on or before the last day of M: a schedule starting later is not used,
\* nor an older one when a newer one is in force.
C18_ScheduleInForce ==
    last.op = "calculate_salary_df" =>
        LET asof == Date(last.month, days_in_month(last.month))
            inforce(type) == {g \in insurance_grade : g.type = type /\ g.start_date <= asof}
            schedule(type) == {g \in inforce(type) :
                                  \A h \in inforce(type) : h.start_date <= g.start_date}
            hits(type) == {g \in schedule(type) :
                              g.salary_min <= BaseSalary /\ BaseSalary <= g.salary_max}
            fee(type) == (CHOOSE g \in hits(type) : TRUE).employee_fee
        IN \A k \in 1..Len(last.df) :
              (/\ last.df[k].name \notin last.ret
               /\ hits("labor") # {}
               /\ hits("health") # {}) =>
                  last.df[k].items.insurance = -(fee("labor") + fee("health"))

\* C19: with one schedule per type, a base salary above the top band is
\* charged the top band's fees, one below the bottom band the bottom band's
\* fees, one inside a band (its max included) that band's fees; the
\* insurance deduction of an insured line is never zero.
C19_FeesClampedToBands ==
    last.op = "calculate_salary_df" =>
        LET rows(type) == {g \in insurance_grade : g.type = type}
            top(type) == CHOOSE g \in rows(type) :
                            \A h \in rows(type) : h.salary_max <= g.salary_max
            bottom(type) == CHOOSE g \in rows(type) :
                               \A h \in rows(type) : h.salary_min >= g.salary_min
            fee(type) ==
                IF BaseSalary > top(type).salary_max THEN top(type).employee_fee
                ELSE IF BaseSalary < bottom(type).salary_min THEN bottom(type).employee_fee
                ELSE (CHOOSE g \in rows(type) :
                         g.salary_min <= BaseSalary /\ BaseSalary <= g.salary_max).employee_fee
        IN \A k \in 1..Len(last.df) :
              (/\ last.df[k].name \notin last.ret
               /\ Cardinality({g.start_date : g \in insurance_grade}) = 1) =>
                  /\ last.df[k].items.insurance = -(fee("labor") + fee("health"))
                  /\ last.df[k].items.insurance # 0

\* C20: a calculated line of month M holds, for an earning item, the sum of
\* the absolute amounts of the employee's assignments of that item whose
\* window covers M (start_date on or before the last day of M, end_date NULL
\* or on or after the first day of M), added to the base salary for the base
\* item; assignments outside the window add nothing.
C20_RecurringWithinWindow ==
    last.op = "calculate_salary_df" =>
        LET first == Date(last.month, 1)
            lastday == Date(last.month, days_in_month(last.month))
            covering(e, i) ==
                {r \in employee_salary_item :
                    /\ r.employee_id = e
                    /\ r.item = i
                    /\ r.start_date <= lastday
                    /\ r.end_date = NULL \/ r.end_date[1] >= first}
            signed(r) == IF item_types[r.item] = "deduction"
                         THEN -Abs(r.amount) ELSE Abs(r.amount)
            total(e, i) == SumOver(covering(e, i), [r \in covering(e, i) |-> signed(r)])
        IN \A k \in 1..Len(last.df) :
              LET e == emp_map(last.df[k].name)
              IN /\ last.df[k].items.allowance = total(e, "allowance")
                 /\ last.df[k].items.base = BaseSalary + total(e, "base")

\* C27: a record that was final before a call and is draft after it was
\* reverted by revert_salary_to_draft; a record that was draft before a call
\* and is final after it was finalized by finalize_salary_records; a record
\* created by a call is draft; save_salary_draft leaves every final record of
\* its month final.
C27_StatusFollowsStateMachine ==
    /\ \A r \in db.salary :
          /\ \A q \in last.pre.salary :
                q.id = r.id =>
                   /\ (q.status = "final" /\ r.status = "draft") =>
                         last.op = "revert_salary_to_draft"
                   /\ (q.status = "draft" /\ r.status = "final") =>
                         last.op = "finalize_salary_records"
          /\ (\A q \in last.pre.salary : q.id # r.id) => r.status = "draft"
    /\ last.op = "save_salary_draft" =>
          \A q \in SalaryOfMonth(last.pre, last.month) :
             q.status = "final" =>
                \E r \in db.salary : r.id = q.id /\ r.status = "final"

\* a month that holds a final record has been saved again as a draft
C27_SavedOverFinal ==
    /\ last.op = "save_salary_draft"
    /\ last.ok
    /\ \E q \in SalaryOfMonth(last.pre, last.month) :
          /\ q.status = "final"
          /\ \E k \in 1..Len(last.df) : emp_map(last.df[k].name) = q.employee_id

\* C28: in every reachable state every salary_detail row, as the connection
\* sees the table and as it is committed, has a salary_id that is the id of a
\* salary row.
C28_DetailReferencesRecord ==
    /\ \A x \in db.salary_detail : \E r \in db.salary : r.id = x.salary_id
    /\ \A x \in committed.salary_detail : \E r \in committed.salary : r.id = x.salary_id

\* one month was deleted with its details after an import and an edit had
\* been possible, while details of another month remain
C28_DeletedBesideOtherMonth ==
    /\ last.op = "delete_salary_records" /\ last.ok
    /\ DetailsOfMonth(last.pre, last.month) # {}
    /\ SalaryOfMonth(db, last.month) = {}
    /\ db.salary_detail # {}
    /\ committed = db

\* C29: after a call of delete_salary_records or generate_monthly_salaries
\* the connection has no transaction open, whether the call returned or
\* raised; delete_salary_records on a month without records returns 0.
C29_CallsCloseTransaction ==
    last.op \in {"delete_salary_records", "generate_monthly_salaries"} =>
        /\ ~inTxn
        /\ (/\ last.op = "delete_salary_records"
            /\ last.ok
            /\ SalaryOfMonth(last.pre, last.month) = {}) => last.ret = 0

\* C30: saving the data editor after a change of a pay-item cell (not of a
\* bank-transfer cell) leaves the bank_transfer_override of every salary
\* record as it was before the save.
C30_ItemEditKeepsOverride ==
    (last.op = "save_data_editor_changes" /\ last.df[1].col \in Items) =>
        \A r \in db.salary :
           \E q \in last.pre.salary :
              q.id = r.id /\ q.bank_transfer_override = r.bank_transfer_override

C22_InsuredSupplement ==
    last.op = "calculate_salary_df" =>
        \A k \in 1..Len(last.df) :
           last.df[k].name \notin last.ret =>
              LET row == last.df[k].items
                  base == row.overtime + row.overtime2 + row.allowance
                  c == -row.nhi_supplement
              IN base >= NHI_SUPPLEMENT_THRESHOLD =>
                    /\ c * NHI_SUPPLEMENT_RATE[2] >= base * NHI_SUPPLEMENT_RATE[1]
                    /\ (c - 1) * NHI_SUPPLEMENT_RATE[2] < base * NHI_SUPPLEMENT_RATE[1]

C24_AmbiguityIsDomestic ==
    last.op = "calculate_salary_df" =>
        /\ Len(last.df) = Cardinality(Employees)
        /\ \A k \in 1..Len(last.df) :
              LET e == emp_map(last.df[k].name)
                  row == last.df[k].items
                  E == row.base + row.overtime + row.overtime2 + row.allowance
                  rate == IF E >= WITHHOLDING_TAX_THRESHOLD
                          THEN WITHHOLDING_TAX_RATE ELSE <<0, 1>>
              IN (\/ employee[e].nationality = NULL
                  \/ /\ employee[e].nationality # <<"TW">>
                     /\ employee[e].arrival_date = NULL) =>
                     /\ row.tax <= 0
                     /\ 2 * Abs(-row.tax * rate[2] - E * rate[1]) <= rate[2]

\* C25: in the calculated line of month M an employee with early-leave
\* minutes has an early-leave item equal to -(minutes / 60 x base salary /
\* divisor) to the nearest integer, computed from the early-leave minutes
\* alone, and likewise a lateness item from the late minutes alone; the
\* calculator sets neither key to zero.
C25_LateAndEarlyLeaveApart ==
    last.op = "calculate_salary_df" =>
        \A k \in 1..Len(last.df) :
           LET e == emp_map(last.df[k].name)
               row == last.df[k].items
               rows == {a \in attendance : a.employee_id = e /\ a.month = last.month}
               late == SumOver(rows, [a \in rows |-> a.late_minutes])
               early == SumOver(rows, [a \in rows |-> a.early_leave_minutes])
               den == 60 * HOURLY_RATE_DIVISOR
               details == Details(e, last.month, last.ret)
           IN /\ 2 * Abs(-row.late * den - late * salary_base_history[e]) <= den
              /\ 2 * Abs(-row.early_leave * den - early * salary_base_history[e]) <= den
              /\ details.late # <<0>>
              /\ details.early_leave # <<0>>

\* C26: for insured domestic employee A with base salary 30000, 600 minutes
\* of tier-1 overtime in the month, no other attendance and no recurring
\* item, under bands with employee fees 1000 and 500, the calculated line
\* holds base 30000, overtime 1675, tier-2 overtime 0, insurance -1500 and no
\* tax, and the report of the saved table shows net pay 30175.
C26_EndToEndLine ==
    (/\ last.op = "calculate_salary_df"
     /\ last.month = 1
     /\ last.ret = {}
     /\ employee[1].nationality = <<"TW">>
     /\ salary_base_history[1] = 30000
     /\ attendance = {AttendanceRow(1, 600, 0, 0, 0)}
     /\ employee_salary_item = {}) =>
        LET row == last.df[1].items
            saved == SaveRows("save_salary_df", EmptyDb, 1, last.df, Len(last.df))
        IN /\ last.df[1].name = "A"
           /\ row.base = 30000
           /\ row.overtime = 1675
           /\ row.overtime2 = 0
           /\ row.insurance = -1500
           /\ row.tax = 0
           /\ CalcReportRow(saved, 1, 1).payable = 31675
           /\ CalcReportRow(saved, 1, 1).deduction = -1500
           /\ CalcReportRow(saved, 1, 1).net = 30175

\* the scenario was calculated
C26_ScenarioCalculated ==
    /\ last.op = "calculate_salary_df"
    /\ last.month = 1
    /\ last.ret = {}
    /\ employee[1].nationality = <<"TW">>
    /\ salary_base_history[1] = 30000
    /\ attendance = {AttendanceRow(1, 600, 0, 0, 0)}
    /\ employee_salary_item = {}
    /\ last.df[1].items.overtime = 1675

====
